---------------------------- MODULE Spec2Model ----------------------------
(***************************************************************************)
(* Groth16 with a commit-and-prove link layer (winderica/groth16).         *)
(*                                                                         *)
(* Group elements are represented by their discrete logarithm with respect *)
(* to a fixed generator of a pairing group of prime order FieldOrder, so   *)
(*   - an element of G1, G2 or GT is a number in 0..FieldOrder-1,          *)
(*   - the group law is addition mod FieldOrder, 0 is the identity,        *)
(*   - scalar multiplication is multiplication mod FieldOrder,             *)
(*   - the pairing e(x, y) is x*y mod FieldOrder (bilinear, non-degenerate)*)
(* Sequences are 1-based here and 0-based in the Rust source.              *)
(***************************************************************************)
EXTENDS Integers, Sequences, FiniteSets, TLC

VARIABLES
    pc,         \* position of the driver: which operation ran last
    crs,        \* inputs of the last setup call (trapdoors, generators, rng)
    gen,        \* outcome of the last setup call: tag and ProvingKey
    gen2,       \* outcome of a second setup call with the same trapdoors
    job,        \* inputs of the last prove call (assignment, r, s, v, link_v)
    out,        \* outcome of the last prove call: (Proof, openings)
    req,        \* inputs of the last verify call (public inputs, link_d)
    verdict,    \* outcome of the last verify call
    lk,         \* stand-alone link SNARK: pp, matrix, rng, keys
    lprf,       \* stand-alone link SNARK: witness and proof
    lver,       \* stand-alone link SNARK: target y and the verifier's answer
    prep,       \* the PreparedVerifyingKey computed from the key after setup
    proofs,     \* number of prove calls made with the key so far
    shape,      \* a link SNARK call on arguments of arbitrary shape, and its outcome
    batch       \* a batched sum in progress: terms, workers' partial sums, result

vars == <<pc, crs, gen, gen2, job, out, req, verdict, lk, lprf, lver, prep, proofs, shape, batch>>

---------------------------------------------------------------------------
(* Bounds of the model.                                                    *)

MaxSeed == 2        \* seeds of the randomness source: 0..MaxSeed
MaxWitness == 1     \* free circuit inputs and link witnesses: 0..MaxWitness
MaxProofs == 2      \* prove calls made with one key

---------------------------------------------------------------------------
(* The scalar field E::ScalarField and the groups of E: Pairing.           *)

FieldOrder == 5

F == 0..(FieldOrder - 1)

add(x, y) == (x + y) % FieldOrder
sub(x, y) == (x - y + FieldOrder) % FieldOrder
mul(x, y) == (x * y) % FieldOrder
neg(x) == (FieldOrder - x) % FieldOrder

\* an inverse that maps zero to zero instead of reporting it
inverse_zero_to_zero(x) ==
    IF x % FieldOrder = 0 THEN 0
    ELSE CHOOSE y \in 1..(FieldOrder - 1) : (x * y) % FieldOrder = 1

\* Field::inverse: None (here -1) for zero.
inverse(x) ==
    IF x % FieldOrder = 0 THEN -1
    ELSE CHOOSE y \in 1..(FieldOrder - 1) : (x * y) % FieldOrder = 1

RECURSIVE SumSeq(_)
SumSeq(s) == IF s = <<>> THEN 0 ELSE add(Head(s), SumSeq(Tail(s)))

Min(a, b) == IF a <= b THEN a ELSE b

\* VariableBaseMSM::msm_unchecked / msm_bigint: pairs bases with scalars up to
\* the shorter of the two.
msm_unchecked(bases, scalars) ==
    SumSeq([i \in 1..Min(Len(bases), Len(scalars)) |-> mul(bases[i], scalars[i])])

\* Pairing::pairing and Pairing::multi_pairing (Miller loop and final
\* exponentiation), zipping the two lists.
pairing(p, q) == mul(p, q)
multi_pairing(a, b) ==
    SumSeq([i \in 1..Min(Len(a), Len(b)) |-> pairing(a[i], b[i])])

---------------------------------------------------------------------------
(* The randomness source: a deterministic generator selected by its seed.  *)
(* An rng value is the sequence of its future outputs; rand takes the      *)
(* head.                                                                   *)

MaxDraws == 9

RngState(seed, i) == (7 * seed + 3 * i * i + i * seed * seed + 2) % 11

\* a generator whose state is shared with earlier calls instead of being
\* fixed by the seed it was given
Rng_shared(seed) ==
    [i \in 1..MaxDraws |->
        RngState(seed + (IF pc = "start" THEN 0 ELSE 1), i) % FieldOrder]

\* StdRng::seed_from_u64(seed)
Rng(seed) == [i \in 1..MaxDraws |-> RngState(seed, i) % FieldOrder]
Seeds == 0..MaxSeed

rand(rng) == Head(rng)
skip(rng, n) == SubSeq(rng, n + 1, Len(rng))

---------------------------------------------------------------------------
(* link/utils.rs                                                           *)

\* SparseMatrix::new
SparseMatrix_new(nr, nc) == [cols |-> [c \in 1..nc |-> <<>>], nr |-> nr, nc |-> nc]

\* SparseMatrix::insert_val: value v at row r (0-based), column c (0-based)
insert_val(m, r, c, v) ==
    [m EXCEPT !.cols[c + 1] = Append(@, <<v, r>>)]

\* SparseMatrix::insert_row_slice
RECURSIVE insert_row_slice(_, _, _, _)
insert_row_slice(m, r, c_offset, vs) ==
    IF vs = <<>> THEN m
    ELSE insert_row_slice(insert_val(m, r, c_offset, Head(vs)), r, c_offset + 1, Tail(vs))

\* The matrix handed to keygen is written as one tuple per row:
\* (c_offset, bases, blinding column, blinding base).
RECURSIVE matrix_from_rows(_, _, _)
matrix_from_rows(m, rows, r) ==
    IF rows = <<>> THEN m
    ELSE matrix_from_rows(
            insert_val(insert_row_slice(m, r, Head(rows)[1], Head(rows)[2]),
                       r, Head(rows)[3], Head(rows)[4]),
            Tail(rows), r + 1)

\* v[*i] is out of bounds
sparse_mult_panics(v, m) ==
    \E c \in 1..Len(m.cols) : \E e \in 1..Len(m.cols[c]) : m.cols[c][e][2] >= Len(v)

\* sparse_vector_matrix_mult taking one entry per column
sparse_vector_matrix_mult_first_entry(v, m) ==
    [c \in 1..Len(m.cols) |->
        IF m.cols[c] = <<>> THEN 0
        ELSE mul(m.cols[c][1][1], v[m.cols[c][1][2] + 1])]

\* SparseLinAlgebra::sparse_vector_matrix_mult: per column, the sum of
\* value * v[row] over the column's entries
sparse_vector_matrix_mult(v, m) ==
    [c \in 1..Len(m.cols) |->
        SumSeq([e \in 1..Len(m.cols[c]) |-> mul(m.cols[c][e][1], v[m.cols[c][e][2] + 1])])]

\* inner_product leaving the last scalar out
inner_product_without_last(a, b) ==
    msm_unchecked(b, SubSeq(a, 1, Len(a) - 1))

inner_product(a, b) == msm_unchecked(b, a)

\* scale_vector leaving the vector unscaled
scale_vector_unscaled(a, v) == v

scale_vector(a, v) == [i \in 1..Len(v) |-> mul(a, v[i])]

multiples_of_g(g, multiples) == [i \in 1..Len(multiples) |-> mul(g, multiples[i])]

\* M * x for a column-major sparse matrix (what the tests compute by hand).
MatVec(m, x) ==
    [r \in 1..m.nr |->
        SumSeq([c \in 1..Min(Len(m.cols), Len(x)) |->
            mul(x[c], SumSeq([e \in 1..Len(m.cols[c]) |->
                IF m.cols[c][e][2] = r - 1 THEN m.cols[c][e][1] ELSE 0]))])]

---------------------------------------------------------------------------
(* link/snark.rs                                                           *)

\* PESubspaceSnark::keygen. The trapdoor k (one scalar per row) and the
\* scalar a are the first pp.l + 1 outputs of the rng.
keygen_k_per_column(rng, pp) == [i \in 1..pp.t |-> rng[i]]
keygen_k(rng, pp) == [i \in 1..pp.l |-> rng[i]]
keygen_a(rng, pp) == rng[pp.l + 1]

keygen(rng, pp, m) ==
    LET k == keygen_k(rng, pp)
        a == keygen_a(rng, pp)
        p == sparse_vector_matrix_mult(k, m)
        c == scale_vector(a, k)
    IN  [ek |-> [p |-> p],
         vk |-> [c |-> multiples_of_g(pp.g2, c), a |-> mul(pp.g2, a)]]

keygen_panics(rng, pp, m) == sparse_mult_panics(keygen_k(rng, pp), m)

\* prove's assertion asking for a witness of exactly pp.t entries
prove_panics_exact(pp, ek, w) == pp.t # Len(w)

\* PESubspaceSnark::prove
prove_panics(pp, ek, w) == ~(pp.t >= Len(w))
prove(pp, ek, w) == inner_product(w, ek.p)

\* verify's first assertion comparing with the column count
verify_panics_cols(pp, vk, x, pi) == pp.t # Len(x) \/ ~(Len(vk.c) >= Len(x))

\* verify pairing the proof with VK.a as it is stored
verify_unnegated(pp, vk, x, pi) ==
    LET a == Append(x, pi)
        b == Append(SubSeq(vk.c, 1, Len(x)), vk.a)
    IN  multi_pairing(a, b) = 0

\* verify pairing the target with the last entries of VK.c
verify_last_entries(pp, vk, x, pi) ==
    LET a == Append(x, pi)
        b == Append(SubSeq(vk.c, Len(vk.c) - Len(x) + 1, Len(vk.c)), neg(vk.a))
    IN  multi_pairing(a, b) = 0

\* PESubspaceSnark::verify
verify_panics(pp, vk, x, pi) == pp.l # Len(x) \/ ~(Len(vk.c) >= Len(x))
verify(pp, vk, x, pi) ==
    LET a == Append(x, pi)
        b == Append(SubSeq(vk.c, 1, Len(x)), neg(vk.a))
    IN  multi_pairing(a, b) = 0

---------------------------------------------------------------------------
(* Circuits (ConstraintSynthesizer) and the R1CS-to-QAP reduction oracle.  *)
(* A circuit is an R1CS with two constraints over the wires                *)
(* [one, instance.., committed.., witness..]; row j of A, B, C holds the   *)
(* coefficients of constraint j:  (A_j . z) * (B_j . z) = (C_j . z).       *)

\* (a) * (d + e) = g  and  (d + e) * 1 = d + e, with d, e committed:
\* wires [one, g | d, e | a]  (after MySillyCircuit of test.rs, with fewer wires)
CircuitMul ==
    [name |-> "mul",
     num_instance_variables |-> 2,
     num_committed_variables |-> 2,
     num_witness_variables |-> 1,
     A |-> << <<0, 0, 0, 0, 1>>, <<0, 0, 1, 1, 0>> >>,
     B |-> << <<0, 0, 1, 1, 0>>, <<1, 0, 0, 0, 0>> >>,
     C |-> << <<0, 1, 0, 0, 0>>, <<0, 0, 1, 1, 0>> >>]

\* a * d = g  and  g * d = b, with d committed: wires [one, g | d | a, b]
CircuitChain ==
    [name |-> "chain",
     num_instance_variables |-> 2,
     num_committed_variables |-> 1,
     num_witness_variables |-> 2,
     A |-> << <<0, 0, 0, 1, 0>>, <<0, 1, 0, 0, 0>> >>,
     B |-> << <<0, 0, 1, 0, 0>>, <<0, 0, 1, 0, 0>> >>,
     C |-> << <<0, 1, 0, 0, 0>>, <<0, 0, 0, 0, 1>> >>]

Circuits == {CircuitMul, CircuitChain}

NumWires(cs) ==
    cs.num_instance_variables + cs.num_committed_variables + cs.num_witness_variables

dot(row, z) == SumSeq([i \in 1..Len(row) |-> mul(row[i], z[i])])

\* ConstraintSystem::is_satisfied
is_satisfied(cs, z) ==
    \A j \in 1..Len(cs.A) : mul(dot(cs.A[j], z), dot(cs.B[j], z)) = dot(cs.C[j], z)

\* What generate_constraints assigns when the circuit is given its inputs:
\* the full assignment [one, instance, committed, witness].
Assignments(cs) ==
    IF cs.name = "mul"
    THEN {<<1, mul(a, add(d, e)), d, e, a>> :
            a \in 0..MaxWitness, d \in 0..MaxWitness, e \in 0..MaxWitness}
    ELSE {<<1, mul(a, d), d, a, mul(mul(a, d), d)>> :
            a \in 0..MaxWitness, d \in 0..MaxWitness}

instance_assignment(cs, z) == SubSeq(z, 1, cs.num_instance_variables)
committed_assignment(cs, z) ==
    SubSeq(z, cs.num_instance_variables + 1,
           cs.num_instance_variables + cs.num_committed_variables)
witness_assignment(cs, z) ==
    SubSeq(z, cs.num_instance_variables + cs.num_committed_variables + 1, Len(z))

\* The evaluation domain of size two: the square roots of one.
Domain == <<1, FieldOrder - 1>>

\* EvaluationDomain::sample_element_outside_domain: draw until outside.
RECURSIVE draws_until_outside(_)
draws_until_outside(rng) ==
    IF rand(rng) \notin {Domain[1], Domain[2]} THEN 1
    ELSE 1 + draws_until_outside(skip(rng, 1))

\* Lagrange coefficients of the domain at t.
lagrange(t) ==
    <<mul(add(t, 1), inverse(2)), mul(sub(1, t), inverse(2))>>

\* R1CSToQAP::instance_map_with_evaluation: per-wire evaluations of the QAP
\* polynomials at a random point t outside the domain, and Z(t).
instance_map_with_evaluation(cs, rng) ==
    LET n == draws_until_outside(rng)
        t == rng[n]
        u == lagrange(t)
        eval(M) == [i \in 1..NumWires(cs) |->
                        SumSeq([j \in 1..Len(M) |-> mul(u[j], M[j][i])])]
    IN  [a |-> eval(cs.A), b |-> eval(cs.B), c |-> eval(cs.C),
         t |-> t,
         zt |-> sub(mul(t, t), 1),
         qap_num_variables |-> NumWires(cs) - 1,
         m_raw |-> Len(Domain),
         rng |-> skip(rng, n)]

RECURSIVE pow(_, _)
pow(x, n) == IF n = 0 THEN 1 ELSE mul(x, pow(x, n - 1))

\* R1CSToQAP::h_query_scalars
h_query_scalars(max_power, t, zt, delta_inverse) ==
    [i \in 1..max_power |-> mul(mul(zt, delta_inverse), pow(t, i - 1))]

\* R1CSToQAP::witness_map: the coefficients of (A(x)B(x) - C(x)) / Z(x),
\* where A(x), B(x), C(x) interpolate the constraint values over the domain.
witness_map(cs, z) ==
    LET slope(M) == mul(sub(dot(M[1], z), dot(M[2], z)), inverse(2))
    IN  <<mul(slope(cs.A), slope(cs.B))>>

---------------------------------------------------------------------------
(* generator.rs                                                            *)

\* BatchMulPreprocessing::batch_mul: the generator scaled by every scalar.
batch_mul(g, scalars) == [i \in 1..Len(scalars) |-> mul(g, scalars[i])]

\* split_off leaving the constant-one wire out of the count
split_off_without_one(v, at) ==
    <<SubSeq(v, 1, at - 1), SubSeq(v, at, Len(v))>>

\* gamma_abc_g1.split_off(num_instance_variables): (what stays, what is
\* split off)
split_off(v, at) ==
    <<SubSeq(v, 1, at), SubSeq(v, at + 1, Len(v))>>

RECURSIVE total_len(_)
total_len(gens) == IF gens = <<>> THEN 0 ELSE Len(Head(gens)[1]) + total_len(Tail(gens))

\* link_m with every base block starting at column 0
RECURSIVE link_rows_of_fixed_offset(_, _, _, _)
link_rows_of_fixed_offset(gens, c, i, num_committed_variables) ==
    IF gens = <<>> THEN <<>>
    ELSE <<<<c, Head(gens)[1], num_committed_variables + i, Head(gens)[2]>>>>
         \o link_rows_of_fixed_offset(Tail(gens), c, i + 1, num_committed_variables)

\* link_m: one row per commitment base block, then the row of gamma_abc's
\* committed part (the loop of lines 204-211).
RECURSIVE link_rows_of(_, _, _, _)
link_rows_of(gens, c, i, num_committed_variables) ==
    IF gens = <<>> THEN <<>>
    ELSE <<<<c, Head(gens)[1], num_committed_variables + i, Head(gens)[2]>>>>
         \o link_rows_of(Tail(gens), c + Len(Head(gens)[1]), i + 1, num_committed_variables)

NoKey == [none |-> TRUE]

\* Groth16::generate_parameters_with_qap
generate_parameters_with_qap(circuit, pedersen_gens, alpha, beta, gamma, delta, eta, g1_generator, g2_generator, rng) ==
    LET num_instance_variables == circuit.num_instance_variables
        num_committed_variables == circuit.num_committed_variables
        qap == instance_map_with_evaluation(circuit, rng)
        a == qap.a
        b == qap.b
        c == qap.c
        gamma_inverse == inverse(gamma)
        delta_inverse == inverse(delta)
        n_gamma == num_instance_variables + num_committed_variables
        abc(i) == add(add(mul(beta, a[i]), mul(alpha, b[i])), c[i])
        gamma_abc == [i \in 1..n_gamma |-> mul(abc(i), gamma_inverse)]
        l == [i \in 1..(Len(a) - n_gamma) |-> mul(abc(n_gamma + i), delta_inverse)]
        b_g2_query == batch_mul(g2_generator, b)
        alpha_g1 == mul(g1_generator, alpha)
        beta_g1 == mul(g1_generator, beta)
        beta_g2 == mul(g2_generator, beta)
        delta_g1 == mul(g1_generator, delta)
        delta_g2 == mul(g2_generator, delta)
        a_query == batch_mul(g1_generator, a)
        b_g1_query == batch_mul(g1_generator, b)
        h_scalars == h_query_scalars(qap.m_raw - 1, qap.t, qap.zt, delta_inverse)
        h_query == batch_mul(g1_generator, h_scalars)
        l_query == batch_mul(g1_generator, l)
        gamma_g2 == mul(g2_generator, gamma)
        gamma_abc_halves ==
            split_off(batch_mul(g1_generator, gamma_abc), num_instance_variables)
        gamma_abc_g1 == gamma_abc_halves[1]
        gamma_abc_g1_part_2 == gamma_abc_halves[2]
        eta_gamma_inv_g1 == mul(g1_generator, mul(eta, gamma_inverse))
        eta_delta_inv_g1 == mul(g1_generator, mul(eta, delta_inverse))
        link_rows == 1 + Len(pedersen_gens)
        link_cols == num_committed_variables + link_rows
        link_pp == [l |-> link_rows, t |-> link_cols,
                    g1 |-> qap.rng[1], g2 |-> qap.rng[2]]
        link_m == Append(link_rows_of(pedersen_gens, 0, 0, num_committed_variables),
                         <<0, gamma_abc_g1_part_2, link_cols - 1, eta_gamma_inv_g1>>)
        link == keygen(skip(qap.rng, 2), link_pp,
                       matrix_from_rows(SparseMatrix_new(link_rows, link_cols), link_m, 0))
        vk == [alpha_g1 |-> alpha_g1,
               beta_g2 |-> beta_g2,
               gamma_g2 |-> gamma_g2,
               delta_g2 |-> delta_g2,
               gamma_abc_g1 |-> <<gamma_abc_g1, gamma_abc_g1_part_2>>,
               eta_gamma_inv_g1 |-> eta_gamma_inv_g1,
               link_pp |-> link_pp,
               link_vk |-> link.vk]
    IN  IF gamma_inverse = -1 \/ delta_inverse = -1
        THEN [tag |-> "UnexpectedIdentity", pk |-> NoKey]
        ELSE IF num_committed_variables # total_len(pedersen_gens)
        THEN [tag |-> "Panic", pk |-> NoKey]
        ELSE [tag |-> "Ok",
              pk |-> [vk |-> vk,
                      common |-> [beta_g1 |-> beta_g1,
                                  delta_g1 |-> delta_g1,
                                  eta_delta_inv_g1 |-> eta_delta_inv_g1,
                                  a_query |-> a_query,
                                  b_g1_query |-> b_g1_query,
                                  b_g2_query |-> b_g2_query,
                                  h_query |-> h_query,
                                  l_query |-> l_query,
                                  link_ek |-> link.ek]]]

---------------------------------------------------------------------------
(* prover.rs                                                               *)

\* calculate_coeff without the key element (alpha*G, beta*G or beta*H)
calculate_coeff_no_vk_param(initial, query, vk_param, assignment) ==
    LET el == query[1]
        acc == msm_unchecked(Tail(query), assignment)
    IN  add(add(initial, el), acc)

\* Groth16::calculate_coeff
calculate_coeff(initial, query, vk_param, assignment) ==
    LET el == query[1]
        acc == msm_unchecked(Tail(query), assignment)
    IN  add(add(add(initial, el), acc), vk_param)

\* create_proof_with_assignment computing B in group 1 only when r = 0
create_proof_with_assignment_skip_inverted(pk_all, r, s, v, link_v, h, input_assignment, committed, aux_assignment) ==
    LET vk == pk_all.vk
        pk == pk_all.common
        h_acc == msm_unchecked(pk.h_query, h)
        l_aux_acc == msm_unchecked(pk.l_query, aux_assignment)
        gamma_abc_inputs_acc == msm_unchecked(vk.gamma_abc_g1[2], committed)
        r_s_delta_g1 == mul(pk.delta_g1, mul(r, s))
        assignment == input_assignment \o committed \o aux_assignment
        r_g1 == mul(pk.delta_g1, r)
        g_a == calculate_coeff(r_g1, pk.a_query, vk.alpha_g1, assignment)
        s_g_a == mul(g_a, s)
        g1_b == IF r = 0
                THEN calculate_coeff(mul(pk.delta_g1, s), pk.b_g1_query, pk.beta_g1,
                                     assignment)
                ELSE 0
        s_g2 == mul(vk.delta_g2, s)
        g2_b == calculate_coeff(s_g2, pk.b_g2_query, vk.beta_g2, assignment)
        r_g1_b == mul(g1_b, r)
        g_c == sub(add(add(sub(add(s_g_a, r_g1_b), r_s_delta_g1), l_aux_acc), h_acc),
                   mul(pk.eta_delta_inv_g1, v))
        g_d == add(gamma_abc_inputs_acc, mul(vk.eta_gamma_inv_g1, v))
        ss_snark_witness == Append(committed \o link_v, v)
    IN  IF prove_panics(vk.link_pp, pk.link_ek, ss_snark_witness)
        THEN [tag |-> "Panic"]
        ELSE [tag |-> "Ok",
              proof |-> [a |-> g_a, b |-> g2_b, c |-> g_c, d |-> g_d,
                         link_pi |-> prove(vk.link_pp, pk.link_ek, ss_snark_witness)]]

\* Groth16::create_proof_with_assignment
create_proof_with_assignment(pk_all, r, s, v, link_v, h, input_assignment, committed, aux_assignment) ==
    LET vk == pk_all.vk
        pk == pk_all.common
        h_acc == msm_unchecked(pk.h_query, h)
        l_aux_acc == msm_unchecked(pk.l_query, aux_assignment)
        gamma_abc_inputs_acc == msm_unchecked(vk.gamma_abc_g1[2], committed)
        r_s_delta_g1 == mul(pk.delta_g1, mul(r, s))
        assignment == input_assignment \o committed \o aux_assignment
        r_g1 == mul(pk.delta_g1, r)
        g_a == calculate_coeff(r_g1, pk.a_query, vk.alpha_g1, assignment)
        s_g_a == mul(g_a, s)
        g1_b == IF r # 0
                THEN calculate_coeff(mul(pk.delta_g1, s), pk.b_g1_query, pk.beta_g1,
                                     assignment)
                ELSE 0
        s_g2 == mul(vk.delta_g2, s)
        g2_b == calculate_coeff(s_g2, pk.b_g2_query, vk.beta_g2, assignment)
        r_g1_b == mul(g1_b, r)
        g_c == sub(add(add(sub(add(s_g_a, r_g1_b), r_s_delta_g1), l_aux_acc), h_acc),
                   mul(pk.eta_delta_inv_g1, v))
        g_d == add(gamma_abc_inputs_acc, mul(vk.eta_gamma_inv_g1, v))
        ss_snark_witness == Append(committed \o link_v, v)
    IN  IF prove_panics(vk.link_pp, pk.link_ek, ss_snark_witness)
        THEN [tag |-> "Panic"]
        ELSE [tag |-> "Ok",
              proof |-> [a |-> g_a, b |-> g2_b, c |-> g_c, d |-> g_d,
                         link_pi |-> prove(vk.link_pp, pk.link_ek, ss_snark_witness)]]

\* Groth16::create_proof_with_reduction: synthesize the circuit on the
\* assignment z, reduce it to the QAP witness, build the proof.
create_proof_with_reduction(circuit, z, pk, r, s, v, link_v) ==
    create_proof_with_assignment(pk, r, s, v, link_v,
        witness_map(circuit, z),
        Tail(instance_assignment(circuit, z)),
        committed_assignment(circuit, z),
        witness_assignment(circuit, z))

\* create_random_proof_with_reduction drawing the hiding scalar v from the
\* rng as well
create_random_proof_with_reduction_hiding(circuit, z, pk, rng) ==
    LET r == rng[1]
        s == rng[2]
        v == rng[3]
        link_v == [i \in 1..(pk.vk.link_pp.l - 1) |-> 0]
        res == create_proof_with_reduction(circuit, z, pk, r, s, v, link_v)
    IN  IF res.tag = "Ok"
        THEN [tag |-> "Ok", proof |-> res.proof, openings |-> <<>>]
        ELSE res

\* Groth16::create_random_proof_with_reduction: r and s from the rng, v and
\* link_v zero; the second component of the result is the list of openings.
create_random_proof_with_reduction(circuit, z, pk, rng) ==
    LET r == rng[1]
        s == rng[2]
        v == 0
        link_v == [i \in 1..(pk.vk.link_pp.l - 1) |-> 0]
        res == create_proof_with_reduction(circuit, z, pk, r, s, v, link_v)
    IN  IF res.tag = "Ok"
        THEN [tag |-> "Ok", proof |-> res.proof, openings |-> <<>>]
        ELSE res

---------------------------------------------------------------------------
(* verifier.rs                                                             *)

\* prepare_verifying_key keeping gamma*H and delta*H as they are
prepare_verifying_key_unnegated(vk) ==
    [vk |-> vk,
     alpha_g1_beta_g2 |-> pairing(vk.alpha_g1, vk.beta_g2),
     gamma_g2_neg_pc |-> vk.gamma_g2,
     delta_g2_neg_pc |-> vk.delta_g2]

\* prepare_verifying_key
prepare_verifying_key(vk) ==
    [vk |-> vk,
     alpha_g1_beta_g2 |-> pairing(vk.alpha_g1, vk.beta_g2),
     gamma_g2_neg_pc |-> neg(vk.gamma_g2),
     delta_g2_neg_pc |-> neg(vk.delta_g2)]

\* impl From<PreparedVerifyingKey<E>> for VerifyingKey<E>
VerifyingKey_from(other) == other.vk

\* prepare_inputs pairing gamma_abc_prefix with the inputs before the
\* constant 1 is prepended
prepare_inputs_unshifted(pvk, public_inputs) ==
    LET inputs == <<1>> \o public_inputs
    IN  IF Len(inputs) # Len(pvk.vk.gamma_abc_g1[1])
        THEN [tag |-> "MalformedVerifyingKey"]
        ELSE [tag |-> "Ok", val |-> msm_unchecked(pvk.vk.gamma_abc_g1[1], public_inputs)]

\* prepare_inputs comparing the length of the inputs as they were passed
prepare_inputs_raw_len(pvk, public_inputs) ==
    LET inputs == <<1>> \o public_inputs
    IN  IF Len(public_inputs) # Len(pvk.vk.gamma_abc_g1[1])
        THEN [tag |-> "MalformedVerifyingKey"]
        ELSE [tag |-> "Ok", val |-> msm_unchecked(pvk.vk.gamma_abc_g1[1], inputs)]

\* Groth16::prepare_inputs
prepare_inputs(pvk, public_inputs) ==
    LET inputs == <<1>> \o public_inputs
    IN  IF Len(inputs) # Len(pvk.vk.gamma_abc_g1[1])
        THEN [tag |-> "MalformedVerifyingKey"]
        ELSE [tag |-> "Ok", val |-> msm_unchecked(pvk.vk.gamma_abc_g1[1], inputs)]

\* Groth16::verify_proof_with_prepared_inputs. The pairing product of three
\* pairs of group elements is a non-zero field element, so final_exponentiation
\* yields a value; && evaluates the link check only when the first test holds.
main_check(pvk, proof, prepared_inputs) ==
    multi_pairing(<<proof.a, add(proof.d, prepared_inputs), proof.c>>,
                  <<proof.b, pvk.gamma_g2_neg_pc, pvk.delta_g2_neg_pc>>)
        = pvk.alpha_g1_beta_g2

\* the link target with D put first
link_target_d_first(proof, link_d) == <<proof.d>> \o link_d

\* [link_d.clone(), vec![proof.d]].concat()
link_target(proof, link_d) == link_d \o <<proof.d>>

verify_proof_with_prepared_inputs(pvk, proof, link_d, prepared_inputs) ==
    IF ~main_check(pvk, proof, prepared_inputs)
    THEN [tag |-> "Ok", val |-> FALSE]
    ELSE IF verify_panics(pvk.vk.link_pp, pvk.vk.link_vk,
                          link_target(proof, link_d), proof.link_pi)
    THEN [tag |-> "Panic", val |-> FALSE]
    ELSE [tag |-> "Ok",
          val |-> verify(pvk.vk.link_pp, pvk.vk.link_vk,
                         link_target(proof, link_d), proof.link_pi)]

\* Groth16::verify_proof
verify_proof(pvk, proof, link_d, public_inputs) ==
    LET prepared_inputs == prepare_inputs(pvk, public_inputs)
    IN  IF prepared_inputs.tag # "Ok"
        THEN [tag |-> prepared_inputs.tag, val |-> FALSE]
        ELSE verify_proof_with_prepared_inputs(pvk, proof, link_d, prepared_inputs.val)

---------------------------------------------------------------------------
(* Inputs of the operations.                                               *)

\* Commitment bases handed to setup: (bases, blinding base) per commitment.
\* test.rs commits every value under the same pair (g, r).
GensPair == << <<<<2>>, 3>>, <<<<2>>, 3>> >>
GensBlock == << <<<<2, 4>>, 3>> >>
GensOne == << <<<<2>>, 3>> >>
PedersenGens == {GensPair, GensBlock, GensOne}

AlphaVals == {2}
BetaVals == {2, 3}
GammaVals == {0, 1, 2}
DeltaVals == {0, 1, 2}
EtaVals == {2}
G1Generators == {2}
G2Generators == {3}
BlindVals == {0, 1}

\* The commitments the caller holds: base block i applied to its slice of
\* the committed values, plus link_v[i] times the blinding base
\* (test.rs lines 115-125, prover.rs lines 112-125).
RECURSIVE pedersen_commitments(_, _, _, _)
pedersen_commitments(gens, committed, link_v, c) ==
    IF gens = <<>> THEN <<>>
    ELSE LET g == Head(gens)[1]
             r == Head(gens)[2]
             lv == IF link_v = <<>> THEN 0 ELSE Head(link_v)
         IN  <<add(msm_unchecked(g, SubSeq(committed, c + 1, c + Len(g))), mul(r, lv))>>
             \o pedersen_commitments(Tail(gens), committed,
                                     IF link_v = <<>> THEN <<>> ELSE Tail(link_v),
                                     c + Len(g))

HonestOpenings ==
    pedersen_commitments(crs.pedersen_gens, committed_assignment(crs.circuit, job.z),
                         job.link_v, 0)

HonestInputs == Tail(instance_assignment(crs.circuit, job.z))

Bump(seq, i) == [seq EXCEPT ![i] = add(@, 1)]

PublicInputChoices ==
    {HonestInputs, Bump(HonestInputs, 1), <<>>, HonestInputs \o <<0>>}

OpeningChoices ==
    {HonestOpenings, SubSeq(HonestOpenings, 1, Len(HonestOpenings) - 1),
     HonestOpenings \o <<0>>, <<>>}
    \cup {Bump(HonestOpenings, i) : i \in 1..Len(HonestOpenings)}

\* Relations of the stand-alone link SNARK: the four of link/mod.rs,
\* as (l, t, rows).
LinkRelations ==
    { [l |-> 1, t |-> 2, rows |-> << <<0, <<1>>, 1, 1>> >>],
      [l |-> 1, t |-> 2, rows |-> << <<0, <<2>>, 1, 3>> >>],
      [l |-> 2, t |-> 3, rows |-> << <<0, <<1>>, 2, 2>>, <<1, <<3>>, 2, 4>> >>],
      [l |-> 2, t |-> 4, rows |-> << <<0, <<1, 2>>, 2, 3>>, <<0, <<4, 1>>, 3, 2>> >>] }

None == [none |-> TRUE]

---------------------------------------------------------------------------
(* The state machine.                                                      *)

Init ==
    /\ pc = "start"
    /\ crs = None /\ gen = None /\ gen2 = None
    /\ job = None /\ out = None /\ req = None /\ verdict = None
    /\ lk = None /\ lprf = None /\ lver = None
    /\ prep = None /\ proofs = 0 /\ shape = None /\ batch = None

RunSetup(c, seed) ==
    generate_parameters_with_qap(c.circuit, c.pedersen_gens, c.alpha, c.beta, c.gamma,
                                 c.delta, c.eta, c.g1_generator, c.g2_generator, Rng(seed))

\* generate_parameters_with_qap on a circuit, bases, trapdoors, generators, rng;
\* the caller then prepares the verifying key of the ProvingKey it got
\* (test.rs lines 72-90).
Setup ==
    /\ pc = "start"
    /\ \E circuit \in Circuits, pedersen_gens \in PedersenGens,
          alpha \in AlphaVals, beta \in BetaVals, gamma \in GammaVals,
          delta \in DeltaVals, eta \in EtaVals,
          g1_generator \in G1Generators, g2_generator \in G2Generators, seed \in Seeds :
        LET c == [circuit |-> circuit, pedersen_gens |-> pedersen_gens,
                  alpha |-> alpha, beta |-> beta, gamma |-> gamma, delta |-> delta,
                  eta |-> eta, g1_generator |-> g1_generator,
                  g2_generator |-> g2_generator, seed |-> seed]
        IN  /\ crs' = c
            /\ gen' = RunSetup(c, seed)
            /\ prep' = IF gen'.tag = "Ok" THEN prepare_verifying_key(gen'.pk.vk) ELSE None
            /\ pc' = IF gen'.tag = "Ok" THEN "keyed" ELSE "setup_failed"
    /\ UNCHANGED <<gen2, job, out, req, verdict, lk, lprf, lver, proofs, shape, batch>>

\* a second run of setup with the same arguments and another rng state
SetupAgain ==
    /\ pc = "keyed"
    /\ \E seed \in Seeds :
        gen2' = [seed |-> seed, res |-> RunSetup(crs, seed)]
    /\ pc' = "rekeyed"
    /\ UNCHANGED <<crs, gen, job, out, req, verdict, lk, lprf, lver, prep, proofs, shape, batch>>

\* The rng the caller hands to a prove call: in any state for the first call
\* with a key; for a later call of the loop, the one rng of test.rs (seeded
\* once, line 66) as the calls made since setup have left it.
CallerSeeds == IF proofs = 0 THEN Seeds ELSE {(crs.seed + proofs) % (MaxSeed + 1)}

\* a prove call that takes the H-query out of the key it was given
ProveRandom_draining ==
    /\ \/ pc = "keyed"
       \/ /\ pc = "verified" /\ job.entry = "random"
          /\ req.public_inputs = HonestInputs /\ req.link_d = HonestOpenings
          /\ verdict = [tag |-> "Ok", val |-> TRUE]
    /\ proofs < MaxProofs
    /\ \E z \in Assignments(crs.circuit), seed \in CallerSeeds :
        /\ job' = [entry |-> "random", z |-> z, r |-> Rng(seed)[1], s |-> Rng(seed)[2],
                   v |-> 0, link_v |-> [i \in 1..(gen.pk.vk.link_pp.l - 1) |-> 0]]
        /\ out' = create_random_proof_with_reduction(crs.circuit, z, gen.pk, Rng(seed))
    /\ gen' = [gen EXCEPT !.pk.common.h_query = <<>>]
    /\ req' = None /\ verdict' = None
    /\ proofs' = proofs + 1
    /\ pc' = "proved"
    /\ UNCHANGED <<crs, gen2, lk, lprf, lver, prep, shape, batch>>

\* create_random_proof_with_reduction(circuit, pk, rng); the loop of test.rs
\* calls it again with the same pk once the last proof has been accepted.
ProveRandom ==
    /\ \/ pc = "keyed"
       \/ /\ pc = "verified" /\ job.entry = "random"
          /\ req.public_inputs = HonestInputs /\ req.link_d = HonestOpenings
          /\ verdict = [tag |-> "Ok", val |-> TRUE]
    /\ proofs < MaxProofs
    /\ \E z \in Assignments(crs.circuit), seed \in CallerSeeds :
        /\ job' = [entry |-> "random", z |-> z, r |-> Rng(seed)[1], s |-> Rng(seed)[2],
                   v |-> 0, link_v |-> [i \in 1..(gen.pk.vk.link_pp.l - 1) |-> 0]]
        /\ out' = create_random_proof_with_reduction(crs.circuit, z, gen.pk, Rng(seed))
    /\ req' = None /\ verdict' = None
    /\ proofs' = proofs + 1
    /\ pc' = "proved"
    /\ UNCHANGED <<crs, gen, gen2, lk, lprf, lver, prep, shape, batch>>

\* create_proof_with_reduction(circuit, pk, r, s, v, link_v)
ProveWithReduction ==
    /\ pc = "keyed"
    /\ \E z \in Assignments(crs.circuit), r \in BlindVals, s \in BlindVals, v \in BlindVals,
          link_v \in [1..Len(crs.pedersen_gens) -> BlindVals] :
        /\ job' = [entry |-> "reduction", z |-> z, r |-> r, s |-> s, v |-> v,
                   link_v |-> link_v]
        /\ out' = create_proof_with_reduction(crs.circuit, z, gen.pk, r, s, v, link_v)
    /\ proofs' = proofs + 1
    /\ pc' = "proved"
    /\ UNCHANGED <<crs, gen, gen2, req, verdict, lk, lprf, lver, prep, shape, batch>>

\* a proof that no prover produced, offered for the statement of z
Forge ==
    /\ pc = "keyed"
    /\ \E z \in Assignments(crs.circuit), a \in BlindVals, b \in BlindVals, c \in BlindVals :
        /\ job' = [entry |-> "forged", z |-> z, r |-> 0, s |-> 0, v |-> 0,
                   link_v |-> [i \in 1..Len(crs.pedersen_gens) |-> 0]]
        /\ out' = [tag |-> "Ok",
                   proof |-> [a |-> a, b |-> b, c |-> c, d |-> c, link_pi |-> a]]
    /\ proofs' = proofs + 1
    /\ pc' = "proved"
    /\ UNCHANGED <<crs, gen, gen2, req, verdict, lk, lprf, lver, prep, shape, batch>>

\* verify_proof(prepare_verifying_key(vk), (proof, link_d), public_inputs)
Verify ==
    /\ pc = "proved"
    /\ out.tag = "Ok"
    /\ \E public_inputs \in PublicInputChoices, link_d \in OpeningChoices :
        /\ req' = [public_inputs |-> public_inputs, link_d |-> link_d]
        /\ verdict' = verify_proof(prep, out.proof, link_d, public_inputs)
    /\ pc' = "verified"
    /\ UNCHANGED <<crs, gen, gen2, job, out, lk, lprf, lver, prep, proofs, shape, batch>>

\* PESubspaceSnark::keygen(rng, pp, m)
LinkKeygen ==
    /\ pc = "start"
    /\ \E rel \in LinkRelations, seed \in Seeds :
        LET pp == [l |-> rel.l, t |-> rel.t, g1 |-> Rng(seed)[1], g2 |-> Rng(seed)[2]]
            m == matrix_from_rows(SparseMatrix_new(rel.l, rel.t), rel.rows, 0)
            rng == skip(Rng(seed), 2)
        IN  lk' = [pp |-> pp, m |-> m, rng |-> rng, keys |-> keygen(rng, pp, m)]
    /\ pc' = "lkeyed"
    /\ UNCHANGED <<crs, gen, gen2, job, out, req, verdict, lprf, lver, prep, proofs, shape, batch>>

LinkWitnesses == [1..lk.pp.t -> 0..MaxWitness]

\* PESubspaceSnark::prove(pp, ek, w)
LinkProve ==
    /\ pc = "lkeyed"
    /\ \E w \in LinkWitnesses :
        lprf' = [w |-> w, pi |-> prove(lk.pp, lk.keys.ek, w)]
    /\ pc' = "lproved"
    /\ UNCHANGED <<crs, gen, gen2, job, out, req, verdict, lk, lver, prep, proofs, shape, batch>>

\* PESubspaceSnark::verify(pp, vk, y, pi) for a target y = M x
LinkVerify ==
    /\ pc = "lproved"
    /\ \E x \in LinkWitnesses :
        LET y == MatVec(lk.m, x)
        IN  lver' = [y |-> y,
                     panics |-> verify_panics(lk.pp, lk.keys.vk, y, lprf.pi),
                     res |-> verify(lk.pp, lk.keys.vk, y, lprf.pi)]
    /\ pc' = "lverified"
    /\ UNCHANGED <<crs, gen, gen2, job, out, req, verdict, lk, lprf, prep, proofs, shape, batch>>

---------------------------------------------------------------------------
(* Link SNARK calls on arguments of any shape: the three operations take    *)
(* pp, the matrix, the keys, the witness and the target as separate         *)
(* arguments, so a caller can pass lengths that disagree.                   *)

\* pp.l and pp.t chosen independently of the matrix
ShapeDims == {[l |-> l, t |-> t] : l \in 1..2, t \in 2..3}

\* keygen(rng, pp, m) with any of the test matrices under any pp
ShapeKeygen ==
    /\ pc = "start"
    /\ \E rel \in LinkRelations, dims \in ShapeDims, seed \in Seeds :
        LET pp == [l |-> dims.l, t |-> dims.t, g1 |-> Rng(seed)[1], g2 |-> Rng(seed)[2]]
            m == matrix_from_rows(SparseMatrix_new(rel.l, rel.t), rel.rows, 0)
            rng == skip(Rng(seed), 2)
            panics == keygen_panics(rng, pp, m)
        IN  shape' = [op |-> "keygen", pp |-> pp, m |-> m, rng |-> rng,
                      panics |-> panics,
                      keys |-> IF panics THEN None ELSE keygen(rng, pp, m)]
    /\ pc' = "shaped"
    /\ UNCHANGED <<crs, gen, gen2, job, out, req, verdict, lk, lprf, lver, prep, proofs, batch>>

\* prove(pp, ek, w) with a witness of any length up to pp.t + 1 and an
\* evaluation key cut to any length
ShapeProve ==
    /\ pc = "lkeyed"
    /\ \E n \in 0..(lk.pp.t + 1), cut \in 0..Len(lk.keys.ek.p) :
       \E w \in [1..n -> 0..MaxWitness] :
        LET ek == [p |-> SubSeq(lk.keys.ek.p, 1, cut)]
            panics == prove_panics(lk.pp, ek, w)
        IN  shape' = [op |-> "prove", pp |-> lk.pp, ek |-> ek, w |-> w,
                      panics |-> panics,
                      pi |-> IF panics THEN None ELSE prove(lk.pp, ek, w)]
    /\ pc' = "shaped"
    /\ UNCHANGED <<crs, gen, gen2, job, out, req, verdict, lk, lprf, lver, prep, proofs, batch>>

\* verify(pp, vk, y, pi) with a target of any length up to pp.l + 1 (the
\* target of the witness, or one with its first entry changed, cut or
\* extended) and a VK.c cut or extended by one element
ShapeVerify ==
    /\ pc = "lproved"
    /\ \E n \in 0..(lk.pp.l + 1), bump \in {0, 1}, cut \in 0..(lk.pp.l + 1), extra \in {1, 2} :
        LET y0 == MatVec(lk.m, lprf.w)
            y1 == [y0 EXCEPT ![1] = add(@, bump)]
            y == SubSeq(y1 \o <<extra>>, 1, n)
            vk == [c |-> SubSeq(lk.keys.vk.c \o <<extra>>, 1, cut), a |-> lk.keys.vk.a]
            panics == verify_panics(lk.pp, vk, y, lprf.pi)
        IN  shape' = [op |-> "verify", pp |-> lk.pp, vk |-> vk, y |-> y, pi |-> lprf.pi,
                      panics |-> panics,
                      res |-> IF panics THEN None ELSE verify(lk.pp, vk, y, lprf.pi)]
    /\ pc' = "shaped"
    /\ UNCHANGED <<crs, gen, gen2, job, out, req, verdict, lk, lprf, lver, prep, proofs, batch>>

\* create_proof_with_reduction(circuit, pk, r, s, v, link_v) with a list
\* link_v that has one scalar fewer or one more than there are commitment
\* bases (link_v is a slice of any length)
ProveWithLinkV ==
    /\ pc = "keyed"
    /\ \E z \in Assignments(crs.circuit), v \in BlindVals,
          n \in {Len(crs.pedersen_gens) - 1, Len(crs.pedersen_gens) + 1} :
       \E link_v \in [1..n -> BlindVals] :
        shape' = [op |-> "prove_link_v", z |-> z, r |-> 1, s |-> 1, v |-> v,
                  link_v |-> link_v,
                  res |-> create_proof_with_reduction(crs.circuit, z, gen.pk, 1, 1, v, link_v)]
    /\ pc' = "shaped"
    /\ UNCHANGED <<crs, gen, gen2, job, out, req, verdict, lk, lprf, lver, prep, proofs, batch>>

---------------------------------------------------------------------------
(* Batched sums (cfg_iter! / msm with the parallel feature): the terms are  *)
(* handed to independent workers, each worker sums the terms it took, and   *)
(* the caller gets the value when all workers have joined.                  *)

Workers == {1, 2}

BatchBases == <<2, 4, 3>>

\* The batches started: an msm of three terms, or the sparse product of a
\* trapdoor vector with the matrix of a link relation (one task per column).
BatchInputs ==
    {[kind |-> "msm", bases |-> BatchBases, scalars |-> sc, n |-> Len(BatchBases)] :
        sc \in [1..Len(BatchBases) -> 0..MaxWitness]}
    \cup
    {[kind |-> "cols", v |-> v,
      m |-> matrix_from_rows(SparseMatrix_new(rel.l, rel.t), rel.rows, 0), n |-> rel.t] :
        rel \in {x \in LinkRelations : x.l = 2}, v \in [1..2 -> 1..(MaxWitness + 1)]}

\* the term of task i: bases[i] * scalars[i], or the entry of column i
BatchTerm(input, i) ==
    IF input.kind = "msm"
    THEN mul(input.bases[i], input.scalars[i])
    ELSE SumSeq([e \in 1..Len(input.m.cols[i]) |->
                    mul(input.m.cols[i][e][1], input.v[input.m.cols[i][e][2] + 1])])

\* the call starts: no term taken, nothing to observe
BatchFork ==
    /\ pc = "start"
    /\ \E input \in BatchInputs :
        batch' = [input |-> input,
                  pending |-> 1..input.n,
                  partial |-> [w \in Workers |-> 0],
                  slots |-> [i \in 1..input.n |-> 0],
                  result |-> None]
    /\ pc' = "forked"
    /\ UNCHANGED <<crs, gen, gen2, job, out, req, verdict, lk, lprf, lver, prep, proofs, shape>>

\* a worker takes one of the remaining terms: it adds it to its partial sum
\* (msm) or stores the entry of its column (sparse product)
WorkerStep ==
    /\ pc = "forked"
    /\ \E w \in Workers, i \in batch.pending :
        batch' = [batch EXCEPT
                    !.pending = @ \ {i},
                    !.partial[w] = IF batch.input.kind = "msm"
                                   THEN add(@, BatchTerm(batch.input, i)) ELSE @,
                    !.slots[i] = IF batch.input.kind = "cols"
                                 THEN BatchTerm(batch.input, i) ELSE @]
    /\ UNCHANGED <<pc, crs, gen, gen2, job, out, req, verdict, lk, lprf, lver, prep, proofs, shape>>

\* the value of the batch once the workers are joined, their partial sums
\* combined in the order given
BatchValue(order) ==
    IF batch.input.kind = "msm"
    THEN SumSeq([j \in 1..Len(order) |-> batch.partial[order[j]]])
    ELSE batch.slots

WorkerOrders == {<<1, 2>>, <<2, 1>>}

\* a join that does not wait for the terms still to be taken
BatchJoin_no_wait ==
    /\ pc = "forked"
    /\ \E order \in WorkerOrders :
        batch' = [batch EXCEPT !.result = BatchValue(order)]
    /\ pc' = "joined"
    /\ UNCHANGED <<crs, gen, gen2, job, out, req, verdict, lk, lprf, lver, prep, proofs, shape>>

\* the join: every term has been taken; the partial sums are combined in
\* some order and the value is returned
BatchJoin ==
    /\ pc = "forked"
    /\ batch.pending = {}
    /\ \E order \in WorkerOrders :
        batch' = [batch EXCEPT !.result = BatchValue(order)]
    /\ pc' = "joined"
    /\ UNCHANGED <<crs, gen, gen2, job, out, req, verdict, lk, lprf, lver, prep, proofs, shape>>

Next ==
    \/ Setup
    \/ SetupAgain
    \/ ProveRandom
    \/ ProveWithReduction
    \/ Forge
    \/ Verify
    \/ LinkKeygen
    \/ LinkProve
    \/ LinkVerify
    \/ ShapeKeygen
    \/ ShapeProve
    \/ ShapeVerify
    \/ ProveWithLinkV
    \/ BatchFork
    \/ WorkerStep
    \/ BatchJoin

Spec == Init /\ [][Next]_vars

---------------------------------------------------------------------------
(* Properties.                                                             *)

OkTrue == [tag |-> "Ok", val |-> TRUE]
OkFalse == [tag |-> "Ok", val |-> FALSE]

Honest == job.entry \in {"random", "reduction"}

\* C1 (completeness): a proof from the prove entry point for a satisfying
\* assignment, verified with the public inputs of that assignment and with
\* openings that are the Pedersen commitments of its committed values,
\* is accepted: verify_proof returns Ok(true).
C1_Completeness ==
    (/\ pc = "verified"
     /\ job.entry = "random"
     /\ req.public_inputs = HonestInputs
     /\ req.link_d = HonestOpenings)
    => verdict = OkTrue

C1_Witness ==
    /\ pc = "verified"
    /\ job.entry = "random"
    /\ job.r # 0 /\ job.s # 0
    /\ is_satisfied(crs.circuit, job.z)
    /\ witness_map(crs.circuit, job.z) # <<0>>
    /\ req.public_inputs = HonestInputs
    /\ req.link_d = HonestOpenings
    /\ verdict = OkTrue

PrefixLen == Len(gen.pk.vk.gamma_abc_g1[1])

\* The verifier's instance contribution for the supplied inputs minus the
\* one for the inputs of the assignment: sum_i (x'_i - x_i) * gamma_abc_prefix[i].
InputShift ==
    msm_unchecked(Tail(gen.pk.vk.gamma_abc_g1[1]),
                  [i \in 1..Len(HonestInputs) |-> sub(req.public_inputs[i], HonestInputs[i])])

WrongInput ==
    /\ pc = "verified"
    /\ job.entry = "random"
    /\ Len(req.public_inputs) = Len(HonestInputs)
    /\ req.public_inputs # HonestInputs

\* C2 as stated (refuted): an honest proof verified with public inputs of the
\* right length that differ from those of its assignment always gives Ok(false).
C2_WrongInputRejected == WrongInput => verdict = OkFalse

\* C2 (amended): an honest proof verified with public inputs of the right
\* length that differ from those of its assignment gives Ok(false), and no
\* error, whenever the difference of the inputs weighted by gamma_abc_prefix
\* is not the group identity (true for all but a negligible fraction of the
\* setups of a real field; when it is the identity the verifier cannot tell
\* the two inputs apart).
C2_WrongInputRejectedUnlessDegenerate ==
    (WrongInput /\ InputShift # 0) => verdict = OkFalse

C2_Witness ==
    /\ WrongInput
    /\ InputShift # 0
    /\ req.link_d = HonestOpenings
    /\ verdict = OkFalse

VerifierTarget == link_target(out.proof, req.link_d)

MainCheckHolds ==
    /\ Len(req.public_inputs) + 1 = PrefixLen
    /\ main_check(prepare_verifying_key(gen.pk.vk), out.proof,
                  prepare_inputs(prepare_verifying_key(gen.pk.vk), req.public_inputs).val)

\* What the mismatch of the openings weighs in the link check: the product of
\* the pairings e(y_i - c_i, VK.c[i]) over the commitments, with y the
\* openings supplied and c the commitments of the proof's committed values
\* (VK.c[i] = a * k[i] * g2 for the link trapdoor k and scalar a).
OpeningSlack ==
    multi_pairing([i \in 1..Len(HonestOpenings) |-> sub(req.link_d[i], HonestOpenings[i])],
                  gen.pk.vk.link_vk.c)

WrongOpenings ==
    /\ pc = "verified"
    /\ Honest
    /\ MainCheckHolds
    /\ Len(req.link_d) = Len(HonestOpenings)
    /\ req.link_d # HonestOpenings

\* C3 as stated (refuted): a proof passing the main pairing check, verified
\* with openings of the right length of which one is not the commitment of
\* the proof's committed values, is rejected.
C3_LinkBinding == WrongOpenings => verdict = OkFalse

\* C3 (amended): such a verification returns false whenever the product of
\* e(y_i - c_i, VK.c[i]) over the mismatching openings is not the identity
\* of the target group (all but a negligible fraction of link keys); and
\* whenever verification returns a boolean, it is the conjunction of the
\* main pairing check and the link check over [external_openings, D], D last.
C3_LinkBindingUnlessDegenerate ==
    /\ (WrongOpenings /\ OpeningSlack # 0) => verdict = OkFalse
    /\ (pc = "verified" /\ verdict.tag = "Ok") =>
          verdict.val =
            (/\ MainCheckHolds
             /\ verify(gen.pk.vk.link_pp, gen.pk.vk.link_vk,
                       req.link_d \o <<out.proof.d>>, out.proof.link_pi))

C3_Witness ==
    /\ WrongOpenings
    /\ OpeningSlack # 0
    /\ job.z[3] # 0
    /\ verdict = OkFalse

\* C4 (link completeness): for keys from keygen(pp, M) and a witness x of
\* length pp.t, verify(pp, VK, M x, prove(pp, EK, x)) returns true, also when
\* a column of M has entries in several rows.
C4_LinkCompleteness ==
    (pc = "lverified" /\ lver.y = MatVec(lk.m, lprf.w))
    => (~lver.panics /\ lver.res)

SharedColumn(m) == \E c \in 1..Len(m.cols) : Len(m.cols[c]) > 1

C4_Witness ==
    /\ pc = "lverified"
    /\ SharedColumn(lk.m)
    /\ Len(lprf.w) = lk.pp.t
    /\ lprf.pi # 0
    /\ lver.y = MatVec(lk.m, lprf.w)
    /\ lver.res

LinkMismatch ==
    /\ pc = "lverified"
    /\ Len(lver.y) = lk.pp.l
    /\ lver.y # MatVec(lk.m, lprf.w)

\* The product of e(y_i - (M x')_i, VK.c[i]) over the rows.
LinkSlack ==
    multi_pairing([i \in 1..lk.pp.l |-> sub(lver.y[i], MatVec(lk.m, lprf.w)[i])],
                  lk.keys.vk.c)

\* C5 as stated (refuted): a proof computed from x' with M x' # y makes
\* verify return false, never an error or abort.
C5_LinkRejection == LinkMismatch => (~lver.panics /\ ~lver.res)

\* C5 (amended): a proof computed from x' with M x' # y never makes verify
\* abort, and makes it return false whenever the product over the rows of
\* e(y_i - (M x')_i, VK.c[i]) is not the identity of the target group
\* (all but a negligible fraction of the keys keygen can return).
C5_LinkRejectionUnlessDegenerate ==
    /\ LinkMismatch => ~lver.panics
    /\ (LinkMismatch /\ LinkSlack # 0) => ~lver.res

C5_Witness ==
    /\ LinkMismatch
    /\ LinkSlack # 0
    /\ lprf.pi # 0
    /\ ~lver.panics /\ ~lver.res

\* C6: public inputs whose length plus one differs from the length of
\* gamma_abc_prefix give the error MalformedVerifyingKey for every proof and
\* openings; when the lengths agree that error is not returned.
C6_MalformedOnLengthMismatch ==
    pc = "verified" =>
        ((Len(req.public_inputs) + 1 # PrefixLen) <=> (verdict.tag = "MalformedVerifyingKey"))

C6_Witness ==
    /\ pc = "verified"
    /\ Len(req.public_inputs) + 1 > PrefixLen
    /\ req.link_d = HonestOpenings
    /\ verdict.tag = "MalformedVerifyingKey"

LengthsAgree == pc = "verified" /\ Len(req.public_inputs) + 1 = PrefixLen

\* C7 as stated (refuted): with public inputs of the matching length,
\* verify_proof returns Ok(true) or Ok(false) for every proof and every list
\* of openings.
C7_NoErrorForAnyProof == LengthsAgree => verdict.tag = "Ok"

\* C7 (amended): with public inputs of the matching length, verify_proof
\* returns Ok(true) or Ok(false) for every proof and every list of openings
\* with exactly pp.l - 1 entries; with a list of another length it returns
\* Ok(false) when the main pairing check fails and aborts when it passes.
C7_NoErrorForWellShapedOpenings ==
    LengthsAgree =>
        IF Len(req.link_d) = gen.pk.vk.link_pp.l - 1
        THEN verdict.tag = "Ok"
        ELSE IF MainCheckHolds THEN verdict.tag = "Panic" ELSE verdict = OkFalse

C7_Witness ==
    /\ LengthsAgree
    /\ job.entry = "forged"
    /\ Len(req.link_d) = gen.pk.vk.link_pp.l - 1
    /\ MainCheckHolds
    /\ verdict = OkFalse

TrapdoorElements(pk) ==
    <<pk.vk.alpha_g1, pk.vk.beta_g2, pk.vk.gamma_g2, pk.vk.delta_g2,
      pk.vk.eta_gamma_inv_g1, pk.common.beta_g1, pk.common.delta_g1,
      pk.common.eta_delta_inv_g1>>

C9_OpeningsReturned ==
    (pc = "proved" /\ job.entry = "random" /\ out.tag = "Ok")
    => (/\ Len(out.openings) = Len(crs.pedersen_gens)
        /\ out.openings = HonestOpenings)

\* C10: in every key returned by setup gamma_abc_prefix has one element per
\* instance variable (the constant one included), gamma_abc_suffix one per
\* committed variable, and the L-query one per private wire.
C10_KeyLengths ==
    (pc = "keyed" /\ gen.tag = "Ok") =>
        /\ Len(gen.pk.vk.gamma_abc_g1[1]) = crs.circuit.num_instance_variables
        /\ Len(gen.pk.vk.gamma_abc_g1[2]) = crs.circuit.num_committed_variables
        /\ Len(gen.pk.common.l_query) = crs.circuit.num_witness_variables

C10_Witness ==
    /\ pc = "keyed"
    /\ gen.tag = "Ok"
    /\ crs.circuit.num_committed_variables # crs.circuit.num_witness_variables
    /\ Len(gen.pk.vk.gamma_abc_g1[1]) = 2
    /\ Len(gen.pk.vk.gamma_abc_g1[2]) = 2
    /\ Len(gen.pk.common.l_query) = 1

---------------------------------------------------------------------------
(* Claims C11 .. C20.                                                      *)

HasKey == pc \in {"keyed", "rekeyed", "proved", "verified"}

\* C13: the PreparedVerifyingKey is a function of the VerifyingKey alone:
\* it embeds vk unchanged (converting it back yields vk), its cached pairing
\* value is e(alpha*G, beta*H), its two prepared elements are -(gamma*H) and
\* -(delta*H), and preparing the key it embeds gives the same value again.
C13_PreparedKeyDerived ==
    HasKey =>
        /\ VerifyingKey_from(prep) = gen.pk.vk
        /\ prep.alpha_g1_beta_g2 =
              pairing(mul(crs.g1_generator, crs.alpha), mul(crs.g2_generator, crs.beta))
        /\ add(prep.gamma_g2_neg_pc, mul(crs.g2_generator, crs.gamma)) = 0
        /\ add(prep.delta_g2_neg_pc, mul(crs.g2_generator, crs.delta)) = 0
        /\ DOMAIN prep = {"vk", "alpha_g1_beta_g2", "gamma_g2_neg_pc", "delta_g2_neg_pc"}
        /\ prepare_verifying_key(VerifyingKey_from(prep)) = prep

C13_Witness ==
    /\ pc = "keyed"
    /\ prep.alpha_g1_beta_g2 # 0
    /\ prep.gamma_g2_neg_pc # gen.pk.vk.gamma_g2
    /\ prep.delta_g2_neg_pc # gen.pk.vk.delta_g2
    /\ prep.gamma_g2_neg_pc # prep.delta_g2_neg_pc
    /\ VerifyingKey_from(prep) = gen.pk.vk

\* C14: setup with gamma = 0 or delta = 0 returns UnexpectedIdentity and no
\* ProvingKey; with both non-zero it does not return that error.
C14_UnexpectedIdentity ==
    /\ pc \in {"keyed", "setup_failed"} =>
          /\ (crs.gamma = 0 \/ crs.delta = 0) <=> (gen.tag = "UnexpectedIdentity")
          /\ gen.tag = "UnexpectedIdentity" => (gen.pk = NoKey /\ pc = "setup_failed")
    /\ pc = "rekeyed" => gen2.res.tag # "UnexpectedIdentity"

C14_Witness ==
    /\ pc = "setup_failed"
    /\ crs.gamma = 0 /\ crs.delta # 0
    /\ gen.tag = "UnexpectedIdentity"
    /\ gen.pk = NoKey

\* C15: a prove or verify call leaves the ProvingKey, its VerifyingKey and
\* the prepared key computed after setup as they were, and every proof of
\* the prove entry point made with that key, the first and the later ones,
\* is accepted under that one prepared key.
C15_KeySharedReadOnly ==
    [][/\ (HasKey /\ pc' \in {"proved", "verified"}) =>
            (gen' = gen /\ prep' = prep /\ crs' = crs)
       /\ (/\ pc' = "verified"
           /\ job'.entry = "random"
           /\ req'.public_inputs = HonestInputs'
           /\ req'.link_d = HonestOpenings') =>
            (/\ verdict' = OkTrue
             /\ verdict' = verify_proof(prep, out.proof, req'.link_d, req'.public_inputs))]_vars

C15_Witness ==
    /\ pc = "verified"
    /\ proofs = MaxProofs
    /\ job.entry = "random"
    /\ req.public_inputs = HonestInputs
    /\ req.link_d = HonestOpenings
    /\ prep = prepare_verifying_key(gen.pk.vk)
    /\ verdict = OkTrue

\* the sum or product computed term after term by one worker
SequentialValue ==
    IF batch.input.kind = "msm"
    THEN msm_unchecked(batch.input.bases, batch.input.scalars)
    ELSE sparse_vector_matrix_mult(batch.input.v, batch.input.m)

\* C16: whatever the split of the terms among the workers and the order in
\* which the partial sums are combined, the value returned at the join is
\* the sequential multi-scalar multiplication (or sparse product), and no
\* value is returned before the join.
C16_BatchOrderIndependent ==
    /\ pc = "forked" => batch.result = None
    /\ pc = "joined" => (batch.pending = {} /\ batch.result = SequentialValue)

C16_Witness ==
    /\ pc = "joined"
    /\ batch.input.kind = "msm"
    /\ batch.partial[1] # 0 /\ batch.partial[2] # 0
    /\ batch.partial[1] # batch.partial[2]
    /\ batch.result = SequentialValue

\* a link SNARK call on arguments of any shape that has been made
Shaped(op) == pc = "shaped" /\ shape.op = op

\* C11: a keygen call that returns gives an EK with one element per column
\* of the matrix it was given (pp.t elements when the matrix has pp.t
\* columns, as in setup and in the stand-alone relations) and a VK holding
\* pp.l elements c and the single element a.
C11_KeyLengthsFollowMatrix ==
    /\ (Shaped("keygen") /\ ~shape.panics) =>
          /\ Len(shape.keys.ek.p) = shape.m.nc
          /\ Len(shape.keys.vk.c) = shape.pp.l
          /\ DOMAIN shape.keys.vk = {"c", "a"}
          /\ shape.keys.vk.a \in F
    /\ pc = "lkeyed" =>
          /\ Len(lk.keys.ek.p) = lk.pp.t
          /\ Len(lk.keys.vk.c) = lk.pp.l
          /\ DOMAIN lk.keys.vk = {"c", "a"}
    /\ pc = "keyed" =>
          /\ Len(gen.pk.common.link_ek.p) = gen.pk.vk.link_pp.t
          /\ Len(gen.pk.vk.link_vk.c) = gen.pk.vk.link_pp.l

\* keygen returned for a matrix with fewer columns than pp.t
C11_Witness ==
    /\ Shaped("keygen") /\ ~shape.panics
    /\ shape.m.nc < shape.pp.t
    /\ Len(shape.keys.ek.p) = shape.m.nc
    /\ Len(shape.keys.vk.c) = shape.pp.l

\* C11 as stated: every keygen call that returns gives exactly pp.t
\* elements in EK and pp.l elements in VK.c.
C11_KeyLengthsFromPP ==
    (Shaped("keygen") /\ ~shape.panics) =>
        (Len(shape.keys.ek.p) = shape.pp.t /\ Len(shape.keys.vk.c) = shape.pp.l)

\* some entry of the matrix sits in a row that pp.l does not cover
RowBeyond(m, l) ==
    \E c \in 1..Len(m.cols) : \E e \in 1..Len(m.cols[c]) : m.cols[c][e][2] >= l

\* C12: the shape checks the link SNARK makes.  keygen aborts exactly when
\* the matrix has an entry in a row >= pp.l (a column count other than pp.t
\* is not checked); prove aborts exactly when the witness is longer than
\* pp.t (an EK shorter than the witness is not checked: the sum runs over
\* the common prefix); verify aborts exactly when the target's length is
\* not pp.l or VK.c is shorter than the target.
C12_ShapeChecks ==
    /\ Shaped("keygen") =>
          /\ shape.panics <=> RowBeyond(shape.m, shape.pp.l)
          /\ ~shape.panics => shape.keys # None
    /\ Shaped("prove") =>
          /\ shape.panics <=> Len(shape.w) > shape.pp.t
          /\ ~shape.panics =>
                shape.pi = SumSeq([i \in 1..Min(Len(shape.w), Len(shape.ek.p)) |->
                                      mul(shape.w[i], shape.ek.p[i])])
    /\ Shaped("verify") =>
          /\ shape.panics <=>
                (Len(shape.y) # shape.pp.l \/ Len(shape.vk.c) < Len(shape.y))
          /\ ~shape.panics => shape.res \in BOOLEAN

\* prove returned although the EK is shorter than the witness
C12_Witness ==
    /\ Shaped("prove") /\ ~shape.panics
    /\ Len(shape.ek.p) < Len(shape.w)
    /\ Len(shape.w) = shape.pp.t
    /\ shape.pi # 0

\* a call whose arguments disagree in shape, as C12 lists them
ShapeDisagrees ==
    \/ Shaped("keygen") /\ (shape.m.nc # shape.pp.t \/ RowBeyond(shape.m, shape.pp.l))
    \/ Shaped("prove") /\ (Len(shape.w) > shape.pp.t \/ Len(shape.ek.p) < Len(shape.w))
    \/ Shaped("verify") /\ (Len(shape.y) # shape.pp.l \/ Len(shape.vk.c) < Len(shape.y))

\* C12 as stated: every call whose arguments disagree in shape aborts.
C12_EveryMismatchAborts ==
    (pc = "shaped" /\ ShapeDisagrees) => shape.panics

\* the entry of M at (row, col), both 0-based: the sum of the values the
\* column's list holds for that row
Entry(m, row, col) ==
    SumSeq([e \in 1..Len(m.cols[col + 1]) |->
        IF m.cols[col + 1][e][2] = row THEN m.cols[col + 1][e][1] ELSE 0])

\* C17: with k the first pp.l scalars keygen draws and a the next one,
\* EK.p[i] is the sum over the entries (value, row) of column i of
\* value * k[row], VK.c[row] = (a * k[row]) * pp.g2 and VK.a = a * pp.g2;
\* the keys have no other field, so k and a are not returned as scalars.
C17_KeygenFormulas ==
    pc = "lkeyed" =>
        LET k == [row \in 0..(lk.pp.l - 1) |-> lk.rng[row + 1]]
            a == lk.rng[lk.pp.l + 1]
            ek == lk.keys.ek
            vk == lk.keys.vk
        IN  /\ Len(ek.p) = lk.pp.t
            /\ \A i \in 0..(lk.pp.t - 1) :
                  ek.p[i + 1] = SumSeq([row \in 1..lk.pp.l |->
                                           mul(Entry(lk.m, row - 1, i), k[row - 1])])
            /\ Len(vk.c) = lk.pp.l
            /\ \A row \in 0..(lk.pp.l - 1) : vk.c[row + 1] = mul(mul(a, k[row]), lk.pp.g2)
            /\ vk.a = mul(a, lk.pp.g2)
            /\ DOMAIN lk.keys = {"ek", "vk"}
            /\ DOMAIN ek = {"p"}
            /\ DOMAIN vk = {"c", "a"}

\* two rows sharing a column, the trapdoor scalars and a all non-zero
C17_Witness ==
    /\ pc = "lkeyed"
    /\ lk.pp.l = 2
    /\ \E c \in 1..Len(lk.m.cols) : Len(lk.m.cols[c]) = 2
    /\ lk.rng[1] # 0 /\ lk.rng[2] # 0 /\ lk.rng[3] # 0
    /\ \A row \in 1..2 : lk.keys.vk.c[row] # 0
    /\ \E i \in 1..lk.pp.t : lk.keys.ek.p[i] # 0

\* the product of e(y[i], VK.c[i]) for i in 0..l-1 times e(pi, -VK.a), in
\* the exponent
LinkProduct(l, c, a, y, pi) ==
    add(SumSeq([i \in 1..l |-> pairing(y[i], c[i])]), pairing(pi, neg(a)))

\* C18: called with a target of pp.l entries and a VK.c at least as long,
\* verify returns true exactly when the product of e(y[i], VK.c[i]) over
\* i in 0..l-1 times e(pi, -VK.a) is the identity; it returns the same for
\* the VK cut to its first l entries.
C18_VerifyEquation ==
    /\ (Shaped("verify") /\ ~shape.panics) =>
          /\ shape.res = (LinkProduct(shape.pp.l, shape.vk.c, shape.vk.a, shape.y, shape.pi) = 0)
          /\ shape.res = verify(shape.pp, [shape.vk EXCEPT !.c = SubSeq(@, 1, shape.pp.l)],
                                shape.y, shape.pi)
    /\ (pc = "lverified" /\ ~lver.panics) =>
          lver.res = (LinkProduct(lk.pp.l, lk.keys.vk.c, lk.keys.vk.a, lver.y, lprf.pi) = 0)

\* accepted with a VK.c that holds one entry more than the target
C18_Witness ==
    /\ Shaped("verify") /\ ~shape.panics
    /\ Len(shape.vk.c) = shape.pp.l + 1
    /\ shape.pp.l = 2
    /\ shape.vk.a # 0 /\ shape.pi # 0
    /\ shape.vk.c[shape.pp.l + 1] # shape.vk.c[1]
    /\ shape.res = TRUE

\* the link relation as C19 describes it, entry (row, col), both 0-based,
\* for the bases and the key of the setup that ran
LinkEntry(row, col) ==
    LET gens == crs.pedersen_gens
        committed == crs.circuit.num_committed_variables
        pp == gen.pk.vk.link_pp
    IN  IF row < Len(gens)
        THEN LET block == gens[row + 1][1]
                 start == total_len(SubSeq(gens, 1, row))
             IN  IF start <= col /\ col < start + Len(block)
                 THEN block[col - start + 1]
                 ELSE IF col = committed + row THEN gens[row + 1][2] ELSE 0
        ELSE IF col < committed
             THEN gen.pk.vk.gamma_abc_g1[2][col + 1]
             ELSE IF col = pp.t - 1 THEN gen.pk.vk.eta_gamma_inv_g1 ELSE 0

\* the trapdoor the link keygen of setup drew: the rng's outputs after the
\* reduction's draws and the two link generators
SetupLinkRng == skip(instance_map_with_evaluation(crs.circuit, Rng(crs.seed)).rng, 2)

\* C19: setup's link relation has pp.l = 1 + number of bases rows and
\* pp.t = committed + pp.l columns; base block i sits in row i from the
\* column where the earlier blocks end, its blinding base in column
\* committed + i; the last row holds gamma_abc_suffix in columns
\* 0..committed-1 and eta*gamma^-1*G in column pp.t-1 (the keys are those of
\* that matrix); setup aborts when the blocks do not cover exactly the
\* committed columns.
C19_LinkRelation ==
    /\ pc \in {"keyed", "setup_failed"} =>
          ((gen.tag = "Panic") <=>
              (/\ crs.gamma # 0 /\ crs.delta # 0
               /\ total_len(crs.pedersen_gens) # crs.circuit.num_committed_variables))
    /\ pc = "keyed" =>
          LET pp == gen.pk.vk.link_pp
              committed == crs.circuit.num_committed_variables
              k == SetupLinkRng
              a == SetupLinkRng[pp.l + 1]
          IN  /\ pp.l = 1 + Len(crs.pedersen_gens)
              /\ pp.t = committed + pp.l
              /\ Len(gen.pk.vk.gamma_abc_g1[2]) = committed
              /\ Len(gen.pk.common.link_ek.p) = pp.t
              /\ \A col \in 0..(pp.t - 1) :
                    gen.pk.common.link_ek.p[col + 1] =
                        SumSeq([row \in 1..pp.l |-> mul(LinkEntry(row - 1, col), k[row])])
              /\ gen.pk.vk.link_vk.c = [row \in 1..pp.l |-> mul(mul(a, k[row]), pp.g2)]

\* two base blocks, one after the other, under a trapdoor without zeros
C19_Witness ==
    /\ pc = "keyed"
    /\ Len(crs.pedersen_gens) = 2
    /\ gen.pk.vk.link_pp.l = 3 /\ gen.pk.vk.link_pp.t = 5
    /\ \A row \in 1..3 : SetupLinkRng[row] # 0
    /\ LinkEntry(1, 1) # 0 /\ LinkEntry(1, 0) = 0
    /\ LinkEntry(2, 0) # 0 /\ LinkEntry(2, 4) # 0
    /\ gen.pk.common.link_ek.p[2] # 0

\* C = s*A + r*B_g1 - r*s*delta*G + L_query*private + H_query*h
\*     - v*(eta*delta^-1*G), with B in group 1 computed whatever r is
GeneralC ==
    LET pk == gen.pk.common
        vk == gen.pk.vk
        aux == witness_assignment(crs.circuit, job.z)
        assignment == Tail(instance_assignment(crs.circuit, job.z))
                      \o committed_assignment(crs.circuit, job.z) \o aux
        B_g1 == add(add(add(mul(pk.delta_g1, job.s), pk.b_g1_query[1]),
                        msm_unchecked(Tail(pk.b_g1_query), assignment)),
                    pk.beta_g1)
    IN  sub(add(add(sub(add(mul(job.s, out.proof.a), mul(job.r, B_g1)),
                        mul(mul(job.r, job.s), pk.delta_g1)),
                    msm_unchecked(pk.l_query, aux)),
                msm_unchecked(pk.h_query, witness_map(crs.circuit, job.z))),
            mul(job.v, pk.eta_delta_inv_g1))

\* C20: the C of a proof made with explicit r, s, v is the general formula
\* at those values, at r = 0 (where B in group 1 is not computed) as at
\* r # 0, and a proof made with r = 0 is accepted with the assignment's
\* public inputs and commitments like any other.
C20_SkipPathEqualsFormula ==
    /\ (pc = "proved" /\ job.entry = "reduction" /\ out.tag = "Ok") =>
          out.proof.c = GeneralC
    /\ (/\ pc = "verified" /\ job.entry = "reduction" /\ job.r = 0
        /\ req.public_inputs = HonestInputs /\ req.link_d = HonestOpenings) =>
          verdict = OkTrue

C20_Witness ==
    /\ pc = "verified" /\ job.entry = "reduction"
    /\ job.r = 0 /\ job.s # 0 /\ job.v # 0
    /\ gen.pk.common.b_g1_query # [i \in 1..Len(gen.pk.common.b_g1_query) |-> 0]
    /\ req.public_inputs = HonestInputs /\ req.link_d = HonestOpenings
    /\ verdict = OkTrue
    /\ out.proof.c # 0 /\ out.proof.c = GeneralC

---------------------------------------------------------------------------
(* Claims C21 .. C22                                                       *)

\* pp.l - 1 zero blinding scalars for the key of the setup that ran
ZeroBlinding == [i \in 1..(gen.pk.vk.link_pp.l - 1) |-> 0]

LinkWitness(z, link_v, v) == Append(committed_assignment(crs.circuit, z) \o link_v, v)

\* C22: with one blinding scalar per commitment base the low-level prover
\* returns a proof whose link witness has exactly pp.t entries, and for
\* every r, s, v, link_v that proof passes the main pairing check for the
\* assignment's public inputs and the link check against the commitments
\* blinded by link_v; with more blinding scalars than bases the prover
\* aborts (and only then).
C22_BlindedCompleteness ==
    /\ (pc = "proved" /\ job.entry = "reduction") =>
          /\ out.tag = "Ok"
          /\ Len(job.link_v) = Len(crs.pedersen_gens)
          /\ Len(LinkWitness(job.z, job.link_v, job.v)) = gen.pk.vk.link_pp.t
    /\ (/\ pc = "verified" /\ job.entry = "reduction"
        /\ req.public_inputs = HonestInputs /\ req.link_d = HonestOpenings) =>
          /\ verdict = OkTrue
          /\ main_check(prep, out.proof, prepare_inputs(prep, req.public_inputs).val)
          /\ verify(gen.pk.vk.link_pp, gen.pk.vk.link_vk,
                    Append(req.link_d, out.proof.d), out.proof.link_pi)
    /\ Shaped("prove_link_v") =>
          ((shape.res.tag = "Panic") <=> (Len(shape.link_v) > Len(crs.pedersen_gens)))

\* accepted with r, s, v and every blinding scalar non-zero, under a link
\* key whose last column and VK are not the identity
C22_Witness ==
    /\ pc = "verified" /\ job.entry = "reduction"
    /\ job.r # 0 /\ job.s # 0 /\ job.v # 0
    /\ Len(job.link_v) = 2 /\ job.link_v[1] # 0 /\ job.link_v[2] # 0
    /\ gen.pk.common.link_ek.p[gen.pk.vk.link_pp.t] # 0
    /\ gen.pk.vk.link_vk.a # 0
    /\ out.proof.link_pi # 0
    /\ req.public_inputs = HonestInputs /\ req.link_d = HonestOpenings
    /\ verdict = OkTrue

===========================================================================
